---- MODULE Spec2Model ----
(***************************************************************************)
(* Model of mnist_classification/main.py: five sequential trials, each     *)
(* wandb.init -> [training epoch -> validate_model -> merged log] x 5 ->   *)
(* summary -> wandb.finish.                                                *)
(*                                                                         *)
(* Abstractions.  Tensors are not modelled: a batch is its length.  The    *)
(* training loss is opaque to the script (it is only logged), so it is     *)
(* the identity of the forward pass that computed it.  The validation      *)
(* loss is computed with (weighted, summed, divided), so a validation      *)
(* batch yields a small natural number as its mean cross-entropy and the   *)
(* number of its samples whose arg-max equals the label.  The datasets     *)
(* are their lengths; the batch size (128 in the script) is drawn from a   *)
(* small range so that full and partial batches both occur.  A Python      *)
(* float quotient a / b is kept exact as the pair [num |-> a, den |-> b].  *)
(* The wandb client is the run that is open, the row being assembled       *)
(* (pending), the committed rows (history, reduced to their keys and       *)
(* integer fields), the last committed row in full (last_row) and the      *)
(* summary.                                                                *)
(***************************************************************************)
EXTENDS Integers, Sequences, FiniteSets, TLC

\* ---- bounds of the model ----
MaxTrain == 3      \* len(train_dl.dataset) ranges over 1..MaxTrain
MaxValid == 3      \* len(valid_dl.dataset) ranges over 1..MaxValid
MaxBatch == 2      \* config.batch_size ranges over 1..MaxBatch
MaxLoss  == 1      \* a validation batch's mean cross-entropy ranges over 0..MaxLoss

\* ---- program constants ----
Trials   == 5      \* for _ in range(5)
Epochs   == 5      \* config.epochs
BatchIdx == 0      \* validate_model's default batch_idx

Losses == 0..MaxLoss

VARIABLES
    pc,                 \* position of main()
    train_len,          \* len(train_dl.dataset)
    valid_len,          \* len(valid_dl.dataset)
    batch_size,         \* config.batch_size
    trial,              \* iterations of the trial loop begun so far
    epoch_i,            \* next value of range(config.epochs), line 135
    epoch,              \* loop variable of line 135
    n_steps_per_epoch,
    example_ct,
    step_ct,
    train_taken,        \* samples the train loader has yielded in this pass
    train_i,            \* enumerate() counter of line 137
    step,               \* loop variable of line 137
    train_loss,
    metrics,
    training,           \* model.training
    log_images,         \* validate_model's argument
    v_taken,            \* samples the validation loader has yielded in this pass
    v_i,                \* enumerate() counter of line 59
    acc_loss,           \* validate_model's local val_loss
    correct,            \* validate_model's local correct
    runs_started,       \* wandb.init calls that returned
    runs_finished,      \* wandb.finish calls that returned
    pending,            \* wandb: data logged with commit=False, not yet committed
    history,            \* wandb: committed rows of the open run (keys and integer fields)
    last_row,           \* wandb: the row committed last, in full
    summary,            \* wandb.summary of the open run
    summary_sets,       \* assignments to wandb.summary in this run
    table_epochs,       \* epochs in which this run logged a predictions_table
    val_batches,        \* the batches validate_model has seen in this epoch
    train_modes,        \* values of model.training seen by this trial's training passes
    eval_modes,         \* values of model.training seen by this trial's validation passes
    exc                 \* <<>>, or the exception that left main() with what had been emitted

vars == <<pc, train_len, valid_len, batch_size, trial, epoch_i, epoch, n_steps_per_epoch,
          example_ct, step_ct, train_taken, train_i, step, train_loss, metrics,
          training, log_images, v_taken, v_i, acc_loss, correct,
          runs_started, runs_finished, pending, history, last_row,
          summary, summary_sets, table_epochs, val_batches, train_modes,
          eval_modes, exc>>

\* ---- values ----
Unbound == "unbound"                 \* a Python name not assigned yet
NoRow   == [k \in {} |-> 0]          \* the empty dict
Absent  == -1                        \* reading a key a row does not hold

Min(a, b) == IF a < b THEN a ELSE b

\* ---- a Python float quotient, kept exact ----
Quot(a, b) == [num |-> a, den |-> b]

\* ---- line 117: math.ceil(len(train_dl.dataset) / config.batch_size); the ----
\* ---- float quotient is exact far beyond the sizes in range            ----
FloorDiv(n, b) == n \div b
CeilDiv(n, b) == (n + b - 1) \div b

\* ---- lines 30-36: DataLoader (drop_last defaults to False): the next ----
\* ---- batch's length                                                  ----
NextBatchLen(len, bsz, taken) == Min(bsz, len - taken)

\* ---- the wandb client: wandb.log(data, commit) adds data to the row being ----
\* ---- assembled; commit closes the row as one step of the history        ----
Staged(data) == data @@ pending

Field(row, k) == IF k \in DOMAIN row THEN row[k] ELSE Absent

Scalars(row) ==
    [keys       |-> DOMAIN row,
     epoch      |-> Field(row, "train/epoch"),
     example_ct |-> Field(row, "train/example_ct"),
     step_ct    |-> Field(row, "train/step_ct")]

WandbLog(data, commit) ==
    IF commit
    THEN /\ history'  = Append(history, Scalars(Staged(data)))
         /\ last_row' = Staged(data)
         /\ pending'  = NoRow
    ELSE /\ pending'  = Staged(data)
         /\ UNCHANGED <<history, last_row>>

RunOpen == runs_started = runs_finished + 1

\* ---- main(): state after logging.basicConfig, before the trial loop ----
Init ==
    /\ pc = "trial_loop"
    /\ train_len  \in 1..MaxTrain
    /\ valid_len  \in 1..MaxValid
    /\ batch_size \in 1..MaxBatch
    /\ trial = 0
    /\ epoch_i = 0
    /\ epoch = 0
    /\ n_steps_per_epoch = 0
    /\ example_ct = 0
    /\ step_ct = 0
    /\ train_taken = 0
    /\ train_i = 0
    /\ step = 0
    /\ train_loss = Unbound
    /\ metrics = Unbound
    /\ training = TRUE
    /\ log_images = FALSE
    /\ v_taken = 0
    /\ v_i = 0
    /\ acc_loss = 0
    /\ correct = 0
    /\ runs_started = 0
    /\ runs_finished = 0
    /\ pending = NoRow
    /\ history = <<>>
    /\ last_row = NoRow
    /\ summary = NoRow
    /\ summary_sets = 0
    /\ table_epochs = <<>>
    /\ val_batches = <<>>
    /\ train_modes = {}
    /\ eval_modes = {}
    /\ exc = <<>>

data_vars  == <<train_len, valid_len, batch_size>>
loop_vars  == <<trial, epoch_i, epoch>>
count_vars == <<example_ct, step_ct>>
iter_vars  == <<train_taken, train_i, step>>
step_vars  == <<train_loss, metrics>>
val_locals == <<log_images, v_taken, v_i, acc_loss, correct>>
run_vars   == <<runs_started, runs_finished>>
row_vars   == <<pending, history, last_row>>
sum_vars   == <<summary, summary_sets>>
seen_modes == <<train_modes, eval_modes>>

\* ---- lines 96-104: next trial; config; wandb.init opens a fresh run.  The ----
\* ---- dropout drawn at line 102 only parameterises the network, whose    ----
\* ---- weights are not modelled                                         ----
TrialStart ==
    /\ pc = "trial_loop"
    /\ trial < Trials
    /\ trial' = trial + 1
    /\ runs_started' = runs_started + 1
    /\ pending' = NoRow
    /\ history' = <<>>
    /\ last_row' = NoRow
    /\ summary' = NoRow
    /\ summary_sets' = 0
    /\ table_epochs' = <<>>
    /\ pc' = "setup"
    /\ UNCHANGED <<exc, data_vars, epoch_i, epoch, n_steps_per_epoch, count_vars,
                   iter_vars, step_vars, val_locals, val_batches, runs_finished,
                   training, seen_modes>>

\* ---- lines 113-135: loaders, n_steps_per_epoch, a fresh model (a new ----
\* ---- nn.Module is in training mode), the counters, range(epochs)     ----
SetupKeepCounters ==
    /\ pc = "setup"
    /\ n_steps_per_epoch' = CeilDiv(train_len, batch_size)
    /\ training' = TRUE
    /\ train_modes' = {}
    /\ eval_modes' = {}
    /\ epoch_i' = 0
    /\ pc' = "epoch_loop"
    /\ UNCHANGED <<exc, data_vars, trial, epoch, count_vars, iter_vars, step_vars,
                   val_locals, val_batches, run_vars, row_vars, sum_vars,
                   table_epochs>>

Setup ==
    /\ pc = "setup"
    /\ n_steps_per_epoch' = CeilDiv(train_len, batch_size)
    /\ training' = TRUE
    /\ train_modes' = {}
    /\ eval_modes' = {}
    /\ example_ct' = 0
    /\ step_ct' = 0
    /\ epoch_i' = 0
    /\ pc' = "epoch_loop"
    /\ UNCHANGED <<exc, data_vars, trial, epoch, iter_vars, step_vars, val_locals,
                   val_batches, run_vars, row_vars, sum_vars, table_epochs>>

\* ---- lines 135-137: next epoch; model.train(); iter(train_dl) ----
EpochStartNoTrain ==
    /\ pc = "epoch_loop"
    /\ epoch_i < Epochs
    /\ epoch' = epoch_i
    /\ epoch_i' = epoch_i + 1
    /\ train_taken' = 0
    /\ train_i' = 0
    /\ val_batches' = <<>>
    /\ pc' = "train_loop"
    /\ UNCHANGED <<exc, data_vars, trial, n_steps_per_epoch, count_vars, step,
                   step_vars, training, seen_modes, val_locals, run_vars, row_vars,
                   sum_vars, table_epochs>>

EpochStart ==
    /\ pc = "epoch_loop"
    /\ epoch_i < Epochs
    /\ epoch' = epoch_i
    /\ epoch_i' = epoch_i + 1
    /\ training' = TRUE
    /\ train_taken' = 0
    /\ train_i' = 0
    /\ val_batches' = <<>>
    /\ pc' = "train_loop"
    /\ UNCHANGED <<exc, data_vars, trial, n_steps_per_epoch, count_vars, step,
                   step_vars, seen_modes, val_locals, run_vars, row_vars, sum_vars,
                   table_epochs>>

\* ---- lines 140-141: the loss tensor of a forward pass, known by its pass ----
ForwardLoss(t, pass) == [trial |-> t, pass |-> pass]

\* ---- lines 147-152: the metrics dict of one training step ----
StepMetrics(loss, ep, ex, st) ==
    ("train/train_loss" :> loss) @@ ("train/epoch" :> ep)
        @@ ("train/example_ct" :> ex) @@ ("train/step_ct" :> st)

\* ---- line 155: whether the step logs a row of its own ----
LogsOwnRow(st, n) == st + 1 < n

\* ---- lines 137-158: one iteration of the training loop ----
TrainStep ==
    /\ pc = "train_loop"
    /\ train_taken < train_len
    /\ LET len  == NextBatchLen(train_len, batch_size, train_taken)
           loss == ForwardLoss(trial, step_ct)
           m    == StepMetrics(loss, epoch, example_ct + len, step_ct)
       IN  /\ step' = train_i
           /\ train_i' = train_i + 1
           /\ train_taken' = train_taken + len
           /\ train_modes' = train_modes \cup {training}
           /\ train_loss' = loss
           /\ example_ct' = example_ct + len
           /\ metrics' = m
           /\ IF LogsOwnRow(train_i, n_steps_per_epoch)
              THEN WandbLog(m, TRUE)
              ELSE UNCHANGED row_vars
           /\ step_ct' = step_ct + 1
    /\ UNCHANGED <<exc, pc, data_vars, loop_vars, n_steps_per_epoch, training,
                   eval_modes, val_locals, val_batches, run_vars, sum_vars,
                   table_epochs>>

\* ---- line 161: log_images=(epoch == (config.epochs - 1)) ----
LogImagesAlways(ep) == TRUE
LogImages(ep) == ep = Epochs - 1

\* ---- lines 160-161, 53-59: the training loop is exhausted; call ----
\* ---- validate_model; model.eval(); iter(valid_dl)               ----
ValidateStart ==
    /\ pc = "train_loop"
    /\ train_taken = train_len
    /\ log_images' = LogImages(epoch)
    /\ training' = FALSE
    /\ acc_loss' = 0
    /\ correct' = 0
    /\ v_i' = 0
    /\ v_taken' = 0
    /\ pc' = "val_loop"
    /\ UNCHANGED <<exc, data_vars, loop_vars, n_steps_per_epoch, count_vars,
                   iter_vars, step_vars, seen_modes, val_batches, run_vars,
                   row_vars, sum_vars, table_epochs>>

\* ---- line 86: the table is logged with commit=False ----
TableCommitTrue == TRUE
TableCommit == FALSE

\* ---- lines 76-86: log_image_table ----
LogImageTable ==
    /\ WandbLog(("predictions_table" :> "table"), TableCommit)
    /\ table_epochs' = Append(table_epochs, epoch)

\* ---- lines 59-72: one iteration of validate_model's loop; the valid ----
\* ---- loader's batch size is 2 * config.batch_size (line 116)        ----
ValBatch ==
    /\ pc = "val_loop"
    /\ v_taken < valid_len
    /\ LET len == NextBatchLen(valid_len, 2 * batch_size, v_taken)
       IN  \E loss \in Losses, hits \in 0..len :
            /\ acc_loss' = acc_loss + loss * len
            /\ correct' = correct + hits
            /\ val_batches' = Append(val_batches,
                                     [size |-> len, loss |-> loss, hits |-> hits])
            /\ v_taken' = v_taken + len
    /\ eval_modes' = eval_modes \cup {training}
    /\ IF v_i = BatchIdx /\ log_images
       THEN LogImageTable
       ELSE UNCHANGED <<row_vars, table_epochs>>
    /\ v_i' = v_i + 1
    /\ UNCHANGED <<exc, pc, data_vars, loop_vars, n_steps_per_epoch, count_vars,
                   iter_vars, step_vars, training, train_modes, log_images,
                   run_vars, sum_vars>>

\* ---- line 73: validate_model's return value ----
PerBatchResult(total, hits, dataset_len, n_batches) ==
    [loss |-> Quot(total, n_batches), accuracy |-> Quot(hits, n_batches)]
ValidateResult(total, hits, dataset_len, n_batches) ==
    [loss |-> Quot(total, dataset_len), accuracy |-> Quot(hits, dataset_len)]

\* ---- lines 165-168: val_metrics ----
ValMetrics(r) == ("val/val_loss" :> r.loss) @@ ("val/val_accuracy" :> r.accuracy)

\* ---- line 169: {**metrics, **val_metrics} ----
MetricsOnly(m, vm) == m
Merged(m, vm) == vm @@ m

\* ---- lines 73, 160-174: validate_model's loop is exhausted; it returns ----
\* ---- (val_loss, accuracy), its locals end, and the epoch's record is  ----
\* ---- logged                                                          ----
EpochLog ==
    /\ pc = "val_loop"
    /\ v_taken = valid_len
    /\ LET r == ValidateResult(acc_loss, correct, valid_len, v_i)
       IN  WandbLog(Merged(metrics, ValMetrics(r)), TRUE)
    /\ log_images' = FALSE
    /\ v_taken' = 0
    /\ v_i' = 0
    /\ acc_loss' = 0
    /\ correct' = 0
    /\ pc' = "epoch_loop"
    /\ UNCHANGED <<exc, data_vars, loop_vars, n_steps_per_epoch, count_vars,
                   iter_vars, step_vars, training, seen_modes, val_batches,
                   run_vars, sum_vars, table_epochs>>

\* ---- line 177: wandb.summary["test_accuracy"] = 0.8 ----
TestAccuracy == Quot(4, 5)

SetSummarySkipped ==
    /\ pc = "epoch_loop"
    /\ epoch_i = Epochs
    /\ pc' = "finish"
    /\ UNCHANGED <<exc, data_vars, loop_vars, n_steps_per_epoch, count_vars,
                   iter_vars, step_vars, training, seen_modes, val_locals,
                   val_batches, run_vars, row_vars, sum_vars, table_epochs>>

SetSummary ==
    /\ pc = "epoch_loop"
    /\ epoch_i = Epochs
    /\ summary' = ("test_accuracy" :> TestAccuracy) @@ summary
    /\ summary_sets' = summary_sets + 1
    /\ pc' = "finish"
    /\ UNCHANGED <<exc, data_vars, loop_vars, n_steps_per_epoch, count_vars,
                   iter_vars, step_vars, training, seen_modes, val_locals,
                   val_batches, run_vars, row_vars, table_epochs>>

\* ---- line 180: wandb.finish() ----
FinishLeftOpen ==
    /\ pc = "finish"
    /\ pc' = "trial_loop"
    /\ UNCHANGED <<exc, data_vars, loop_vars, n_steps_per_epoch, count_vars,
                   iter_vars, step_vars, training, seen_modes, val_locals,
                   val_batches, run_vars, row_vars, sum_vars, table_epochs>>

Finish ==
    /\ pc = "finish"
    /\ runs_finished' = runs_finished + 1
    /\ pc' = "trial_loop"
    /\ UNCHANGED <<exc, data_vars, loop_vars, n_steps_per_epoch, count_vars,
                   iter_vars, step_vars, training, seen_modes, val_locals,
                   val_batches, runs_started, row_vars, sum_vars, table_epochs>>

\* ---- line 96: range(5) is exhausted; main() returns ----
Return ==
    /\ pc = "trial_loop"
    /\ trial = Trials
    /\ pc' = "done"
    /\ UNCHANGED <<exc, data_vars, loop_vars, n_steps_per_epoch, count_vars,
                   iter_vars, step_vars, training, seen_modes, val_locals,
                   val_batches, run_vars, row_vars, sum_vars, table_epochs>>

\* ---- what the logger has received ----
Emitted == [runs |-> runs_started, closed |-> runs_finished, rows |-> history,
            staged |-> DOMAIN pending, sets |-> summary_sets]

\* ---- lines 96-180 hold no try/except: the operation at pc raises (data ----
\* ---- loading, forward/backward, a wandb call) before it has any        ----
\* ---- effect, and the exception leaves main()                           ----
Running == pc \notin {"done", "crashed"} /\ ~(pc = "trial_loop" /\ trial = Trials)

RaiseSwallowed ==
    /\ Running
    /\ exc' = <<[at |-> pc, trial |-> trial, emitted |-> Emitted]>>
    /\ pc' = "trial_loop"
    /\ UNCHANGED <<data_vars, loop_vars, n_steps_per_epoch, count_vars, iter_vars,
                   step_vars, training, seen_modes, val_locals, val_batches,
                   run_vars, row_vars, sum_vars, table_epochs>>

Raise ==
    /\ Running
    /\ exc' = <<[at |-> pc, trial |-> trial, emitted |-> Emitted]>>
    /\ pc' = "crashed"
    /\ UNCHANGED <<data_vars, loop_vars, n_steps_per_epoch, count_vars, iter_vars,
                   step_vars, training, seen_modes, val_locals, val_batches,
                   run_vars, row_vars, sum_vars, table_epochs>>

Next ==
    \/ TrialStart
    \/ Setup
    \/ EpochStart
    \/ TrainStep
    \/ ValidateStart
    \/ ValBatch
    \/ EpochLog
    \/ SetSummary
    \/ Finish
    \/ Return
    \/ Raise

Spec == Init /\ [][Next]_vars

(***************************************************************************)
(* Vocabulary of the properties.  None of it is used by the actions.       *)
(***************************************************************************)
\* the position of main(), also after an exception has left it
Pos == IF Len(exc) = 1 THEN exc[1].at ELSE pc

\* ceil(train_len / batch_size), as the least number of batches that cover the data
Steps == CHOOSE k \in 1..train_len :
            k * batch_size >= train_len /\ (k - 1) * batch_size < train_len

TrainKeys == {"train/train_loss", "train/epoch", "train/example_ct", "train/step_ct"}
ValKeys   == {"val/val_loss", "val/val_accuracy"}
TableKey  == "predictions_table"

Rows == 1..Len(history)
IsValRow(i)  == ValKeys \subseteq history[i].keys
ValRowsOf(e) == {i \in Rows : IsValRow(i) /\ history[i].epoch = e}
ValRowCount  == Cardinality({i \in Rows : IsValRow(i)})

\* epochs of the open (or last) run whose record has been logged
EpochsLogged ==
    IF Pos = "setup" THEN 0
    ELSE IF Pos \in {"train_loop", "val_loop"} THEN epoch_i - 1
    ELSE epoch_i

\* the epoch's record has just been logged
EpochLogged == pc = "epoch_loop" /\ epoch_i >= 1

\* all epochs of the open (or last) run are over
TrialComplete ==
    \/ Pos = "finish"
    \/ Pos = "epoch_loop" /\ epoch_i = Epochs
    \/ Pos \in {"trial_loop", "done"} /\ runs_finished >= 1

RECURSIVE WeightedLoss(_)
WeightedLoss(bs) ==
    IF bs = <<>> THEN 0 ELSE Head(bs).loss * Head(bs).size + WeightedLoss(Tail(bs))

RECURSIVE HitCount(_)
HitCount(bs) == IF bs = <<>> THEN 0 ELSE Head(bs).hits + HitCount(Tail(bs))

RECURSIVE SeenSize(_)
SeenSize(bs) == IF bs = <<>> THEN 0 ELSE Head(bs).size + SeenSize(Tail(bs))

\* C1: in every epoch the loader yields ceil(N/B) steps; every step but the
\* last of the epoch commits a record of its own, the last one does not, so
\* the k-th training step of a trial is the k-th committed record and the
\* epoch's record (the one with validation keys) is the one of its final step.
C1_StepRecords ==
    /\ \A i \in Rows :
        /\ TrainKeys \subseteq history[i].keys
        /\ history[i].step_ct = i - 1
        /\ history[i].epoch = (i - 1) \div Steps
        /\ IsValRow(i) <=> (i % Steps = 0)
    /\ Pos = "train_loop" =>
        /\ train_i <= Steps
        /\ (train_taken = train_len) <=> (train_i = Steps)
        /\ Len(history) = epoch * Steps + Min(train_i, Steps - 1)
    /\ Pos = "val_loop" =>
        /\ train_i = Steps
        /\ step = Steps - 1
        /\ Len(history) = epoch * Steps + (Steps - 1)
        /\ metrics["train/step_ct"] = Len(history)

C1_Witness ==
    /\ pc = "val_loop"
    /\ epoch >= 1
    /\ Steps >= 2
    /\ train_len % batch_size # 0
    /\ Len(history) = epoch * Steps + (Steps - 1)

\* C2: the record at the end of an epoch holds the training metrics of the
\* final training step of that epoch (train/epoch is the current epoch) and
\* that epoch's validation loss and accuracy; each epoch has exactly one such
\* record, logged once its validation has seen the whole validation set.
C2_EpochRecord ==
    /\ EpochLogged =>
        /\ (TrainKeys \cup ValKeys) \subseteq DOMAIN last_row
        /\ last_row["train/epoch"] = epoch
        /\ last_row["train/step_ct"] = (epoch + 1) * Steps - 1
        /\ last_row["train/step_ct"] = step_ct - 1
        /\ last_row["train/example_ct"] = (epoch + 1) * train_len
        /\ last_row["train/train_loss"] = [trial |-> trial, pass |-> step_ct - 1]
        /\ last_row["train/train_loss"] = train_loss
        /\ SeenSize(val_batches) = valid_len
        /\ last_row["val/val_loss"].num = WeightedLoss(val_batches)
        /\ last_row["val/val_accuracy"].num = HitCount(val_batches)
        /\ history[Len(history)].epoch = epoch
        /\ IsValRow(Len(history))
    /\ \A e \in 0..(Epochs - 1) :
        Cardinality(ValRowsOf(e)) = IF e < EpochsLogged THEN 1 ELSE 0

C2_Witness ==
    /\ EpochLogged
    /\ epoch = 2
    /\ Steps >= 2
    /\ Len(val_batches) >= 2
    /\ Cardinality(ValRowsOf(2)) = 1

\* C3: a trial (5 epochs) ends with exactly 5 validation records and exactly
\* one predictions_table event, and that event belongs to the validation of
\* the last epoch: no earlier epoch logs a table.
C3_ValidationAndTable ==
    /\ Len(table_epochs) <= 1
    /\ \A j \in 1..Len(table_epochs) : table_epochs[j] = Epochs - 1
    /\ Len(table_epochs) = 1 => ValRowCount >= Epochs - 1
    /\ EpochsLogged < Epochs - 1 => table_epochs = <<>>
    /\ TrialComplete =>
        /\ ValRowCount = 5
        /\ table_epochs = <<4>>

C3_Witness ==
    /\ pc = "finish"
    /\ ValRowCount = 5
    /\ table_epochs = <<4>>

\* C4: the predictions table is staged, not committed: while it is staged
\* the program is inside the last epoch's validation, no row is committed
\* before the last epoch's merged record, and that record is the only row
\* holding the table; the table adds no row of its own.
C4_TableMerged ==
    /\ TableKey \in DOMAIN pending =>
        /\ Pos = "val_loop"
        /\ epoch = Epochs - 1
        /\ Len(history) = step_ct - 1
    /\ \A i \in Rows :
        TableKey \in history[i].keys =>
            /\ i = Len(history)
            /\ IsValRow(i)
            /\ TrainKeys \subseteq history[i].keys
            /\ history[i].epoch = Epochs - 1
    /\ TrialComplete =>
        /\ TableKey \in history[Len(history)].keys
        /\ DOMAIN pending = {}
        /\ Len(history) = step_ct
        /\ Len(history) = Epochs * Steps

C4_Witness ==
    /\ pc = "epoch_loop"
    /\ epoch_i = Epochs
    /\ DOMAIN last_row = TrainKeys \cup ValKeys \cup {TableKey}
    /\ valid_len > 2 * batch_size

\* C5: a trial that completes sets the summary test_accuracy exactly once,
\* to 0.8, after the last epoch's validation record and while its run is
\* still open (before wandb.finish).
C5_SummaryOnce ==
    /\ summary_sets <= 1
    /\ summary_sets = 0 => DOMAIN summary = {}
    /\ summary_sets = 1 =>
        /\ DOMAIN summary = {"test_accuracy"}
        /\ summary["test_accuracy"] = [num |-> 4, den |-> 5]
        /\ ValRowCount = Epochs
        /\ history[Len(history)].epoch = Epochs - 1
    /\ Pos = "finish" => summary_sets = 1 /\ RunOpen
    /\ (RunOpen /\ Pos # "finish") => summary_sets = 0
    /\ (~RunOpen /\ runs_finished >= 1) => summary_sets = 1

C5_Witness ==
    /\ pc = "trial_loop"
    /\ runs_finished = 2
    /\ ~RunOpen
    /\ summary_sets = 1

\* C6: five trials run one after another, each init -> (training ->
\* validation) x 5 -> finish: at most one run is open, a run is opened only
\* when the previous one is finished, whatever reaches the logger reaches it
\* while the run of the current trial is open, and a normal run ends with
\* five runs opened and five finished.
Flow ==
    {<<"trial_loop", "setup">>, <<"setup", "epoch_loop">>,
     <<"epoch_loop", "train_loop">>, <<"train_loop", "train_loop">>,
     <<"train_loop", "val_loop">>, <<"val_loop", "val_loop">>,
     <<"val_loop", "epoch_loop">>, <<"epoch_loop", "finish">>,
     <<"finish", "trial_loop">>, <<"trial_loop", "done">>}

LoggerTouched ==
    \/ history' # history
    \/ DOMAIN pending' # DOMAIN pending
    \/ summary_sets' # summary_sets

C6_State ==
    /\ runs_started - runs_finished \in {0, 1}
    /\ runs_started = trial
    /\ runs_started <= 5
    /\ RunOpen <=> Pos \in {"setup", "epoch_loop", "train_loop", "val_loop", "finish"}
    /\ Pos = "finish" => epoch_i = Epochs /\ ValRowCount = Epochs
    /\ pc = "done" => runs_started = 5 /\ runs_finished = 5

C6_Step ==
    /\ pc' # "crashed" => <<pc, pc'>> \in Flow
    /\ runs_started' # runs_started =>
        /\ ~RunOpen
        /\ runs_started' = runs_started + 1
        /\ runs_finished' = runs_finished
    /\ runs_finished' # runs_finished =>
        /\ RunOpen
        /\ runs_finished' = runs_finished + 1
    /\ (LoggerTouched /\ runs_started' = runs_started) =>
        /\ RunOpen
        /\ RunOpen'
        /\ trial = runs_started
        /\ trial' = trial

C6_SequentialTrials == [](C6_State) /\ [][C6_Step]_vars

C6_Witness ==
    /\ pc = "done"
    /\ runs_started = 5
    /\ runs_finished = 5
    /\ Len(history) = Epochs * Steps

\* C7: validate_model returns (sum over the batches of batch loss x batch
\* size) / V and (samples whose arg-max equals the label) / V, with V the
\* size of the validation set, not the number of batches, and the accuracy
\* lies in [0, 1].
C7_ValidateMeans ==
    EpochLogged =>
        /\ SeenSize(val_batches) = valid_len
        /\ last_row["val/val_loss"] =
              [num |-> WeightedLoss(val_batches), den |-> valid_len]
        /\ last_row["val/val_accuracy"] =
              [num |-> HitCount(val_batches), den |-> valid_len]
        /\ last_row["val/val_accuracy"].den > 0
        /\ 0 <= last_row["val/val_accuracy"].num
        /\ last_row["val/val_accuracy"].num <= last_row["val/val_accuracy"].den

C7_Witness ==
    /\ EpochLogged
    /\ Len(val_batches) = 2
    /\ val_batches[2].size < val_batches[1].size
    /\ val_batches[1].loss # val_batches[2].loss
    /\ last_row["val/val_accuracy"].num = valid_len

\* C8: an exception raised by any operation ends the run: main() never
\* resumes, the logger receives nothing after it (no record, no summary, no
\* new run), and a trial that failed before its summary has none.
C8_FailFast ==
    /\ pc = "crashed" <=> Len(exc) = 1
    /\ Len(exc) = 1 =>
        /\ Emitted = exc[1].emitted
        /\ trial = exc[1].trial
        /\ runs_started = exc[1].trial
        /\ exc[1].at \in {"setup", "epoch_loop", "train_loop", "val_loop"} =>
              summary_sets = 0 /\ RunOpen
        /\ exc[1].at # "trial_loop" => RunOpen

C8_Witness ==
    /\ pc = "crashed"
    /\ exc[1].at = "val_loop"
    /\ exc[1].trial = 2
    /\ Len(history) >= 1
    /\ summary_sets = 0

\* C9: within a trial step_ct and example_ct are never reset at an epoch
\* boundary, so they increase strictly along the trial's records; every
\* trial starts both from 0.
C9_Counters ==
    /\ \A i \in Rows : i > 1 =>
        /\ history[i - 1].step_ct < history[i].step_ct
        /\ history[i - 1].example_ct < history[i].example_ct
    /\ Len(history) >= 1 =>
        /\ history[1].step_ct = 0
        /\ history[1].example_ct = Min(batch_size, train_len)
    /\ (Pos = "epoch_loop" /\ epoch_i = 0) => (example_ct = 0 /\ step_ct = 0)
    /\ Pos = "train_loop" =>
        /\ step_ct = epoch * Steps + train_i
        /\ example_ct = epoch * train_len + train_taken

C9_Witness ==
    /\ pc = "train_loop"
    /\ trial = 2
    /\ epoch = 1
    /\ train_i = 1
    /\ Len(history) >= 2
    /\ history[Len(history)].example_ct > train_len

\* C10: every training forward pass sees the model in training mode and
\* every validation forward pass sees it in evaluation mode, in every epoch,
\* although validate_model leaves the model in evaluation mode.
C10_Modes ==
    /\ train_modes \subseteq {TRUE}
    /\ eval_modes \subseteq {FALSE}
    /\ Pos = "train_loop" => training
    /\ Pos = "val_loop" => ~training

C10_Witness ==
    /\ pc = "train_loop"
    /\ epoch >= 1
    /\ train_i >= 1
    /\ train_modes = {TRUE}
    /\ eval_modes = {FALSE}

====
